---- MODULE Spec2Model ----
(***************************************************************************)
(* Model of the anomaly-analysis gateway: the HTTP handler analyze_anomaly *)
(* of main.py (request parsing, required-field check, normalisation into   *)
(* an Anomaly, analyzer construction, engine call, response assembly and   *)
(* the two except clauses) and the records of src/models/anomaly.py.       *)
(*                                                                         *)
(* Floats are modelled as integers counting tenths (15.5 is 155).          *)
(* String conversions (float(), datetime.fromisoformat, str.replace, Enum  *)
(* lookup) are tables over the string literals the requests draw from.     *)
(***************************************************************************)
EXTENDS Integers, Sequences, FiniteSets, TLC

VARIABLES active, pc, request, anomaly, analysis, raised, response, engineCalls,
          health

vars == <<active, pc, request, anomaly, analysis, raised, response, engineCalls,
         health>>

(***************************************************************************)
(* Bounds of the model.                                                    *)
(***************************************************************************)
\* A request mapping that carries the ten required keys differs from the
\* documented example payload in at most this many keys.
MaxDeviations == 2

\* The engine returns at most this many recommendations.
MaxRecs == 1

\* The false-positive rates the health check reads, in tenths, range over
\* 0..MaxFpRate.
MaxFpRate == 2

\* Invocations of the handler the model knows; Init chooses which run.
Invocations == {1, 2}

(***************************************************************************)
(* JSON values as they arrive from request.get_json: one record shape for  *)
(* every JSON type.  s: string payload, n: number in tenths (bool: 0/1),   *)
(* ks/vs: keys and string values of a mapping, vs: the items of a list.    *)
(***************************************************************************)
JNull == [t |-> "null", s |-> "", n |-> 0, ks |-> <<>>, vs |-> <<>>]

JBool(b) == [t |-> "bool", s |-> "", n |-> IF b THEN 1 ELSE 0, ks |-> <<>>, vs |-> <<>>]

JNum(n) == [t |-> "num", s |-> "", n |-> n, ks |-> <<>>, vs |-> <<>>]

JStr(s) == [t |-> "str", s |-> s, n |-> 0, ks |-> <<>>, vs |-> <<>>]

JList(vs) == [t |-> "list", s |-> "", n |-> 0, ks |-> <<>>, vs |-> vs]

JMap(ks, vs) == [t |-> "map", s |-> "", n |-> 0, ks |-> ks, vs |-> vs]

(***************************************************************************)
(* Results of an evaluation that may raise.                                *)
(***************************************************************************)
NoExc == [where |-> "", exc |-> "", msg |-> ""]

Exc(where, exc, msg) == [where |-> where, exc |-> exc, msg |-> msg]

\* repr() of a JSON value, as far as the error messages need it.
Repr(v) ==
    CASE v.t = "str" -> "'" \o v.s \o "'"
      [] v.t = "null" -> "None"
      [] v.t = "bool" -> IF v.n = 1 THEN "True" ELSE "False"
      [] v.t = "num" -> ToString(v.n \div 10) \o "." \o ToString(v.n % 10)
      [] v.t = "list" -> IF v.vs = <<>> THEN "[]" ELSE "[...]"
      [] OTHER -> IF v.ks = <<>> THEN "{}" ELSE "{...}"

\* type(v).__name__ of a JSON value.
TypeName(v) ==
    CASE v.t = "str" -> "str"
      [] v.t = "null" -> "NoneType"
      [] v.t = "bool" -> "bool"
      [] v.t = "num" -> "float"
      [] v.t = "list" -> "list"
      [] OTHER -> "dict"

(***************************************************************************)
(* The closed enumerations: value string to member name.                   *)
(***************************************************************************)
AnomalyTypeValues ==
    [stability |-> "STABILITY", performance |-> "PERFORMANCE", cost |-> "COST",
     resource |-> "RESOURCE", unknown |-> "UNKNOWN"]

SeverityValues ==
    [critical |-> "CRITICAL", high |-> "HIGH", medium |-> "MEDIUM",
     low |-> "LOW", info |-> "INFO"]

\* Enum(value): the member whose value equals the argument, else ValueError.
EnumLookup(table, clsName, v) ==
    IF v.t = "str" /\ v.s \in DOMAIN table
    THEN [ok |-> TRUE, member |-> table[v.s], err |-> NoExc]
    ELSE [ok |-> FALSE, member |-> "",
          err |-> Exc("validate", "ValueError",
                      Repr(v) \o " is not a valid " \o clsName)]

\* A variant of AnomalyType that falls back to UNKNOWN for an unrecognised value.
AnomalyTypeDefaulting(v) ==
    IF v.t = "str" /\ v.s \in DOMAIN AnomalyTypeValues
    THEN [ok |-> TRUE, member |-> AnomalyTypeValues[v.s], err |-> NoExc]
    ELSE [ok |-> TRUE, member |-> "UNKNOWN", err |-> NoExc]

AnomalyType(v) == EnumLookup(AnomalyTypeValues, "AnomalyType", v)

Severity(v) == EnumLookup(SeverityValues, "Severity", v)

\* member.value: the string a member serialises to.
EnumValue(table, member) == CHOOSE s \in DOMAIN table : table[s] = member

(***************************************************************************)
(* Timestamps.  A datetime is its date, its time of day and its offset     *)
(* ("" for a naive datetime).                                              *)
(***************************************************************************)
NoDatetime == [date |-> "", time |-> "", tz |-> ""]

\* str.replace('Z', '+00:00') on the timestamp literals of the model.
ReplaceZ(s) ==
    CASE s = "2024-12-16T14:05:30Z" -> "2024-12-16T14:05:30+00:00"
      [] s = "2024-12-16T14:00:00Z" -> "2024-12-16T14:00:00+00:00"
      [] OTHER -> s

\* datetime.fromisoformat on the timestamp literals of the model.
FromIsoFormat(s) ==
    CASE s = "2024-12-16T14:05:30+00:00" ->
           [ok |-> TRUE, dt |-> [date |-> "2024-12-16", time |-> "14:05:30", tz |-> "+00:00"]]
      [] s = "2024-12-16T14:00:00+00:00" ->
           [ok |-> TRUE, dt |-> [date |-> "2024-12-16", time |-> "14:00:00", tz |-> "+00:00"]]
      [] s = "2024-12-16T14:05:30" ->
           [ok |-> TRUE, dt |-> [date |-> "2024-12-16", time |-> "14:05:30", tz |-> ""]]
      [] s = "2024-12-16T00:00:00" ->
           [ok |-> TRUE, dt |-> [date |-> "2024-12-16", time |-> "00:00:00", tz |-> ""]]
      [] s = "2024-12-16" ->
           [ok |-> TRUE, dt |-> [date |-> "2024-12-16", time |-> "00:00:00", tz |-> ""]]
      [] OTHER -> [ok |-> FALSE, dt |-> NoDatetime]

\* datetime.isoformat().
IsoFormat(dt) == dt.date \o "T" \o dt.time \o dt.tz

\* Line 114: datetime.fromisoformat(request_json['detected_at'].replace('Z', '+00:00')).
ParseDetectedAt(v) ==
    IF v.t # "str"
    THEN [ok |-> FALSE, dt |-> NoDatetime,
          err |-> Exc("validate", "AttributeError",
                      "'" \o TypeName(v) \o "' object has no attribute 'replace'")]
    ELSE LET r == FromIsoFormat(ReplaceZ(v.s))
         IN  IF r.ok
             THEN [ok |-> TRUE, dt |-> r.dt, err |-> NoExc]
             ELSE [ok |-> FALSE, dt |-> NoDatetime,
                   err |-> Exc("validate", "ValueError",
                               "Invalid isoformat string: " \o Repr(JStr(ReplaceZ(v.s))))]

(***************************************************************************)
(* float(): a number or a bool converts, a string is parsed (surrounding   *)
(* blanks ignored), anything else is a TypeError.                          *)
(***************************************************************************)
FloatOfStr(s) ==
    CASE s = "15.5" -> [ok |-> TRUE, f |-> 155]
      [] s = " 2.3 " -> [ok |-> TRUE, f |-> 23]
      [] s = "-1" -> [ok |-> TRUE, f |-> -10]
      [] OTHER -> [ok |-> FALSE, f |-> 0]

Float(v) ==
    CASE v.t \in {"num", "bool"} ->
           [ok |-> TRUE, f |-> IF v.t = "bool" THEN 10 * v.n ELSE v.n, err |-> NoExc]
      [] v.t = "str" ->
           LET r == FloatOfStr(v.s)
           IN  IF r.ok
               THEN [ok |-> TRUE, f |-> r.f, err |-> NoExc]
               ELSE [ok |-> FALSE, f |-> 0,
                     err |-> Exc("validate", "ValueError",
                                 "could not convert string to float: " \o Repr(v))]
      [] OTHER ->
           [ok |-> FALSE, f |-> 0,
            err |-> Exc("validate", "TypeError",
                        "float() argument must be a string or a real number, not '"
                            \o TypeName(v) \o "'")]

(***************************************************************************)
(* Request bodies: what request.get_json(silent=True) returns.  "none" is  *)
(* None (the body did not parse); a mapping carries `fields`, a function   *)
(* from its keys to JSON values; the other JSON types carry s, n or vs.    *)
(***************************************************************************)
NoFields == [k \in {} |-> JNull]

BodyNone == [t |-> "none", fields |-> NoFields, s |-> "", n |-> 0, vs |-> <<>>]

BodyMap(fields) == [t |-> "map", fields |-> fields, s |-> "", n |-> 0, vs |-> <<>>]

BodyList(vs) == [t |-> "list", fields |-> NoFields, s |-> "", n |-> 0, vs |-> vs]

BodyStr(s) == [t |-> "str", fields |-> NoFields, s |-> s, n |-> 0, vs |-> <<>>]

BodyNum(n) == [t |-> "num", fields |-> NoFields, s |-> "", n |-> n, vs |-> <<>>]

\* required_fields, in the order the code lists them.
required_fields ==
    <<"anomaly_id", "detected_at", "metric_name", "metric_type",
      "current_value", "baseline_value", "deviation_sigma",
      "deviation_percentage", "anomaly_type", "severity">>

RequiredSet == {required_fields[i] : i \in DOMAIN required_fields}

OptionalKeys ==
    <<"confidence", "affected_resources", "time_window", "related_metrics", "metadata">>

AllKeys == required_fields \o OptionalKeys

\* The documented example payload (required keys only).
Example ==
    [anomaly_id |-> JStr("anom_20241216_001"),
     detected_at |-> JStr("2024-12-16T14:05:30Z"),
     metric_name |-> JStr("error_rate"),
     metric_type |-> JStr("error_rate"),
     current_value |-> JNum(155),
     baseline_value |-> JNum(23),
     deviation_sigma |-> JNum(52),
     deviation_percentage |-> JNum(5740),
     anomaly_type |-> JStr("stability"),
     severity |-> JStr("high")]

\* The other values a key takes in the requests of the model.
NumericAlternatives ==
    {JStr("15.5"), JStr("abc"), JNull, JList(<<>>), JBool(TRUE), JNum(-10)}

Alternatives(k) ==
    CASE k = "anomaly_id" -> {JNull, JStr("")}
      [] k = "detected_at" ->
           {JStr("2024-12-16T14:05:30"), JStr("2024-12-16"), JStr("not-a-date"),
            JNum(17000), JNull, JList(<<>>)}
      [] k = "metric_name" -> {JNull}
      [] k = "metric_type" -> {JNum(10)}
      [] k \in {"current_value", "baseline_value", "deviation_sigma",
                "deviation_percentage"} -> NumericAlternatives
      [] k = "anomaly_type" -> {JStr("unknown"), JStr("bogus"), JNull, JList(<<>>)}
      [] k = "severity" -> {JStr("info"), JStr("extreme"), JNum(30)}
      [] k = "confidence" -> {JNum(8), JNum(15), JNum(-2), JNull, JStr("high")}
      [] k = "affected_resources" -> {JList(<<>>), JList(<<"service-a">>)}
      [] k = "time_window" ->
           {JMap(<<>>, <<>>), JMap(<<"start">>, <<"2024-12-16T14:00:00Z">>), JNull}
      [] k = "related_metrics" -> {JMap(<<"cpu_utilization">>, <<"0.9">>)}
      [] OTHER -> {JMap(<<"region">>, <<"us-central1">>)}

\* The mappings that carry the ten required keys and differ from the example
\* in at most `budget` of the keys AllKeys[i..].
RECURSIVE Deviations(_, _, _)
Deviations(fields, i, budget) ==
    IF i > Len(AllKeys)
    THEN {fields}
    ELSE Deviations(fields, i + 1, budget)
         \cup (IF budget = 0
               THEN {}
               ELSE UNION {Deviations((AllKeys[i] :> v) @@ fields, i + 1, budget - 1) :
                           v \in Alternatives(AllKeys[i])})

FullBodies == {BodyMap(f) : f \in Deviations(Example, 1, MaxDeviations)}

\* The mappings that lack one or more required keys: every proper subset of
\* the required keys, with or without the optional key `confidence`.
MissingBodies ==
    {BodyMap([k \in S \cup O |-> IF k \in RequiredSet THEN Example[k] ELSE JNum(8)]) :
        S \in (SUBSET RequiredSet) \ {RequiredSet}, O \in {{}, {"confidence"}}}

\* Bodies that are not mappings: unparseable, falsy and truthy scalars,
\* lists and strings, among them a list holding the ten key names.
OtherBodies ==
    {BodyNone, BodyNum(0), BodyNum(70), BodyStr(""), BodyStr("abc"),
     BodyList(<<>>), BodyList(<<"anomaly_id">>), BodyList(required_fields)}

Bodies == FullBodies \cup MissingBodies \cup OtherBodies

Requests ==
    {[method |-> "POST", body |-> b] : b \in Bodies}
        \cup {[method |-> "OPTIONS", body |-> BodyNone]}

(***************************************************************************)
(* The steps of lines 80-133 as pure functions.                            *)
(***************************************************************************)
\* bool(request_json): None, 0, "", [] and {} are falsy.
Truthy(body) ==
    CASE body.t = "none" -> FALSE
      [] body.t = "map" -> DOMAIN body.fields # {}
      [] body.t = "list" -> body.vs # <<>>
      [] body.t = "str" -> body.s # ""
      [] OTHER -> body.n # 0

\* Whether `f in request_json` can be evaluated (a number is not iterable).
Iterable(body) == body.t \in {"map", "list", "str"}

\* `f in request_json`: key of a mapping, item of a list, substring of a string.
Contains(body, f) ==
    CASE body.t = "map" -> f \in DOMAIN body.fields
      [] body.t = "list" -> \E i \in DOMAIN body.vs : body.vs[i] = f
      [] OTHER -> FALSE

\* Line 98: [f for f in required_fields if f not in request_json].
missing_fields(body) == SelectSeq(required_fields, LAMBDA f : ~Contains(body, f))

(***************************************************************************)
(* The Anomaly record (models/anomaly.py) and its construction from a      *)
(* request mapping (main.py 111-133).                                      *)
(***************************************************************************)
NoAnomaly == [present |-> FALSE]

\* confidence=request_json.get('confidence', 0.8), in tenths.
DefaultConfidence == 8

\* dict.get(key, default).
Get(fields, k, default) == IF k \in DOMAIN fields THEN fields[k] ELSE default

\* A variant of OptionalArguments that clamps a numeric confidence to [0, 1].
OptionalArgumentsClamped(fields) ==
    LET c == Get(fields, "confidence", JNum(DefaultConfidence))
    IN  [confidence |-> IF c.t = "num"
                        THEN JNum(IF c.n < 0 THEN 0 ELSE IF c.n > 10 THEN 10 ELSE c.n)
                        ELSE c,
         affected_resources |-> Get(fields, "affected_resources", JList(<<>>)),
         time_window |-> Get(fields, "time_window", JMap(<<>>, <<>>)),
         related_metrics |-> Get(fields, "related_metrics", JMap(<<>>, <<>>)),
         metadata |-> Get(fields, "metadata", JMap(<<>>, <<>>))]

\* The optional arguments of Anomaly(...), lines 128-132.
OptionalArguments(fields) ==
    [confidence |-> Get(fields, "confidence", JNum(DefaultConfidence)),
     affected_resources |-> Get(fields, "affected_resources", JList(<<>>)),
     time_window |-> Get(fields, "time_window", JMap(<<>>, <<>>)),
     related_metrics |-> Get(fields, "related_metrics", JMap(<<>>, <<>>)),
     metadata |-> Get(fields, "metadata", JMap(<<>>, <<>>))]

Failed(err) == [ok |-> FALSE, anomaly |-> NoAnomaly, err |-> err]

\* Lines 111-133 on a mapping that holds the ten required keys: the
\* arguments are evaluated in the order written and the first exception ends
\* the construction.
Normalize(fields) ==
    LET detected_at == ParseDetectedAt(fields["detected_at"])
        current_value == Float(fields["current_value"])
        baseline_value == Float(fields["baseline_value"])
        deviation_sigma == Float(fields["deviation_sigma"])
        deviation_percentage == Float(fields["deviation_percentage"])
        anomaly_type == AnomalyType(fields["anomaly_type"])
        severity == Severity(fields["severity"])
        opt == OptionalArguments(fields)
    IN  CASE ~detected_at.ok -> Failed(detected_at.err)
          [] ~current_value.ok -> Failed(current_value.err)
          [] ~baseline_value.ok -> Failed(baseline_value.err)
          [] ~deviation_sigma.ok -> Failed(deviation_sigma.err)
          [] ~deviation_percentage.ok -> Failed(deviation_percentage.err)
          [] ~anomaly_type.ok -> Failed(anomaly_type.err)
          [] ~severity.ok -> Failed(severity.err)
          [] OTHER ->
               [ok |-> TRUE, err |-> NoExc,
                anomaly |->
                    [present |-> TRUE,
                     anomaly_id |-> fields["anomaly_id"],
                     detected_at |-> detected_at.dt,
                     metric_name |-> fields["metric_name"],
                     metric_type |-> fields["metric_type"],
                     current_value |-> current_value.f,
                     baseline_value |-> baseline_value.f,
                     deviation_sigma |-> deviation_sigma.f,
                     deviation_percentage |-> deviation_percentage.f,
                     anomaly_type |-> anomaly_type.member,
                     severity |-> severity.member,
                     confidence |-> opt.confidence,
                     affected_resources |-> opt.affected_resources,
                     time_window |-> opt.time_window,
                     related_metrics |-> opt.related_metrics,
                     metadata |-> opt.metadata]]

\* Line 77 of models/anomaly.py: {k: v.isoformat() for k, v in
\* self.time_window.items()}.  No JSON value has isoformat(), and only a
\* mapping has items().
TimeWindowToDict(tw) ==
    CASE tw.t # "map" ->
           [ok |-> FALSE, v |-> JNull,
            err |-> Exc("to_dict", "AttributeError",
                        "'" \o TypeName(tw) \o "' object has no attribute 'items'")]
      [] tw.ks # <<>> ->
           [ok |-> FALSE, v |-> JNull,
            err |-> Exc("to_dict", "AttributeError",
                        "'str' object has no attribute 'isoformat'")]
      [] OTHER -> [ok |-> TRUE, v |-> JMap(<<>>, <<>>), err |-> NoExc]

\* Anomaly.to_dict().
to_dict(a) ==
    LET time_window == TimeWindowToDict(a.time_window)
    IN  IF ~time_window.ok
        THEN [ok |-> FALSE, dict |-> NoFields, err |-> time_window.err]
        ELSE [ok |-> TRUE, err |-> NoExc,
              dict |->
                  [anomaly_id |-> a.anomaly_id,
                   detected_at |-> JStr(IsoFormat(a.detected_at)),
                   metric_name |-> a.metric_name,
                   metric_type |-> a.metric_type,
                   current_value |-> JNum(a.current_value),
                   baseline_value |-> JNum(a.baseline_value),
                   deviation_sigma |-> JNum(a.deviation_sigma),
                   deviation_percentage |-> JNum(a.deviation_percentage),
                   anomaly_type |-> JStr(EnumValue(AnomalyTypeValues, a.anomaly_type)),
                   severity |-> JStr(EnumValue(SeverityValues, a.severity)),
                   confidence |-> a.confidence,
                   affected_resources |-> a.affected_resources,
                   time_window |-> time_window.v,
                   related_metrics |-> a.related_metrics,
                   metadata |-> a.metadata]]

(***************************************************************************)
(* What the engine hands back: an AnomalyAnalysis (models/anomaly.py), or  *)
(* an object short of one (None, or an attribute that is None, or a value  *)
(* json.dumps cannot serialise).                                           *)
(***************************************************************************)
NoSummary ==
    [present |-> FALSE, what_happened |-> "", why_it_happened |-> "",
     what_is_the_impact |-> "", what_improvements_can_be_made |-> "",
     estimated_benefit_if_implemented |-> ""]

EmptySummary == [NoSummary EXCEPT !.present = TRUE]

FilledSummary ==
    [present |-> TRUE, what_happened |-> "Error rate rose",
     why_it_happened |-> "A bad deploy", what_is_the_impact |-> "Requests fail",
     what_improvements_can_be_made |-> "Roll back",
     estimated_benefit_if_implemented |-> "Errors return to baseline"]

Summaries == {NoSummary, EmptySummary, FilledSummary}

ARecommendation ==
    [priority |-> "high", action |-> "Roll back", rationale |-> "Bad deploy",
     expected_impact |-> "Errors drop", implementation_steps |-> <<"revert">>,
     estimated_effort |-> "", risk_level |-> "low"]

Recommendations == {[i \in 1..n |-> ARecommendation] : n \in 0..MaxRecs}

NoAnalysis ==
    [isNone |-> TRUE, anomaly |-> NoAnomaly,
     root_cause |-> [present |-> FALSE, primary_cause |-> "", serializable |-> TRUE],
     recommendations |-> <<>>,
     analyzed_at |-> [present |-> FALSE, dt |-> NoDatetime],
     ai_model_used |-> "", analysis_duration_ms |-> 0, summary |-> NoSummary]

Defects == {"", "anomaly", "root_cause", "analyzed_at", "unserializable"}

\* The objects analyzer.analyze_anomaly(a) may return: complete analyses of a
\* (no defect) and objects with one defect.
Analyses(a) ==
    {NoAnalysis} \cup
    {[isNone |-> FALSE,
      anomaly |-> IF d = "anomaly" THEN NoAnomaly ELSE a,
      root_cause |-> [present |-> d # "root_cause", primary_cause |-> "Bad deploy",
                      serializable |-> d # "unserializable"],
      recommendations |-> recs,
      analyzed_at |-> [present |-> d # "analyzed_at",
                       dt |-> [date |-> "2024-12-16", time |-> "14:05:35", tz |-> ""]],
      ai_model_used |-> "gemini", analysis_duration_ms |-> 1200,
      summary |-> sm] :
        d \in Defects, recs \in Recommendations, sm \in Summaries}

(***************************************************************************)
(* Responses: the HTTP status and the keys and values of the JSON body.    *)
(* Status 0 with no keys is "no response yet".                             *)
(***************************************************************************)
NoResponse ==
    [status |-> 0, keys |-> {}, error |-> "", message |-> "", missing |-> <<>>,
     required |-> <<>>, type |-> "", success |-> FALSE, anomaly_id |-> JNull,
     recommendations |-> <<>>, analyzed_at |-> "", ai_model_used |-> "",
     analysis_duration_ms |-> 0, human_readable_summary |-> NoSummary]

\* Lines 63-70: the answer to a CORS preflight, an empty body.
PreflightResponse == [NoResponse EXCEPT !.status = 204]

\* Lines 83-90.
InvalidRequestResponse ==
    [NoResponse EXCEPT !.status = 400, !.keys = {"error", "message"},
                       !.error = "Invalid request",
                       !.message = "Request body must be JSON"]

\* Lines 101-109.
MissingFieldsResponse(missing) ==
    [NoResponse EXCEPT !.status = 400, !.keys = {"error", "missing", "required"},
                       !.error = "Missing required fields",
                       !.missing = missing, !.required = required_fields]

\* `except ValueError` also catches the subclasses of ValueError.
IsValueError(exc) == exc \in {"ValueError", "JSONDecodeError", "UnicodeDecodeError"}

\* Lines 184-205: the two except clauses of the handler.
ErrorResponse(e) ==
    IF IsValueError(e.exc)
    THEN [NoResponse EXCEPT !.status = 400, !.keys = {"error", "message"},
                            !.error = "Validation error", !.message = e.msg]
    ELSE [NoResponse EXCEPT !.status = 500, !.keys = {"error", "message", "type"},
                            !.error = "Internal server error", !.message = e.msg,
                            !.type = e.exc]

\* A variant of SummaryTruthy that takes a summary of empty strings for none.
SummaryTruthyNonEmpty(sm) ==
    /\ sm.present
    /\ \/ sm.what_happened # ""
       \/ sm.why_it_happened # ""
       \/ sm.what_is_the_impact # ""
       \/ sm.what_improvements_can_be_made # ""
       \/ sm.estimated_benefit_if_implemented # ""

\* `if analysis.summary:` (line 171).  HumanReadableSummary is a dataclass
\* without __bool__ or __len__: every instance is truthy, None is falsy.
SummaryTruthy(sm) == sm.present

AttributeError(where, typ, attr) ==
    Exc(where, "AttributeError",
        "'" \o typ \o "' object has no attribute '" \o attr \o "'")

\* Lines 143-178: response_data, built from an analysis whose attributes are
\* all there.
SuccessResponse(an) ==
    [NoResponse EXCEPT
        !.status = 200,
        !.keys = {"success", "anomaly_id", "root_cause", "recommendations",
                  "analyzed_at", "ai_model_used", "analysis_duration_ms",
                  "saved_to_bigquery"}
                 \cup (IF SummaryTruthy(an.summary)
                       THEN {"human_readable_summary"}
                       ELSE {}),
        !.success = TRUE,
        !.anomaly_id = an.anomaly.anomaly_id,
        !.recommendations = an.recommendations,
        !.analyzed_at = IsoFormat(an.analyzed_at.dt) \o "Z",
        !.ai_model_used = an.ai_model_used,
        !.analysis_duration_ms = an.analysis_duration_ms,
        !.human_readable_summary =
            IF SummaryTruthy(an.summary) THEN an.summary ELSE NoSummary]

\* A variant of BuildResponse that substitutes defaults for what the engine
\* left out instead of failing on it.
BuildResponseLenient(an) ==
    [ok |-> TRUE, err |-> NoExc,
     response |->
         SuccessResponse(
             [an EXCEPT !.anomaly = IF an.anomaly.present
                                    THEN @
                                    ELSE [present |-> TRUE, anomaly_id |-> JNull]])]

\* Lines 143-182: the attribute reads of response_data in the order written,
\* then json.dumps(response_data).
BuildResponse(an) ==
    CASE an.isNone ->
           [ok |-> FALSE, err |-> AttributeError("assemble", "NoneType", "anomaly")]
      [] ~an.anomaly.present ->
           [ok |-> FALSE, err |-> AttributeError("assemble", "NoneType", "anomaly_id")]
      [] ~an.root_cause.present ->
           [ok |-> FALSE, err |-> AttributeError("assemble", "NoneType", "primary_cause")]
      [] ~an.analyzed_at.present ->
           [ok |-> FALSE, err |-> AttributeError("assemble", "NoneType", "isoformat")]
      [] ~an.root_cause.serializable ->
           [ok |-> FALSE,
            err |-> Exc("assemble", "TypeError",
                        "Object of type datetime is not JSON serializable")]
      [] OTHER -> [ok |-> TRUE, err |-> NoExc, response |-> SuccessResponse(an)]

\* Lines 80-133 up to the constructed Anomaly: the response that ends the
\* request early, the exception raised, or the Anomaly.
ValidateRequest(body) ==
    CASE ~Truthy(body) ->
           [kind |-> "response", response |-> InvalidRequestResponse,
            err |-> NoExc, anomaly |-> NoAnomaly]
      [] ~Iterable(body) ->
           [kind |-> "raise", response |-> NoResponse, anomaly |-> NoAnomaly,
            err |-> Exc("validate", "TypeError",
                        "argument of type 'int' is not iterable")]
      [] missing_fields(body) # <<>> ->
           [kind |-> "response", response |-> MissingFieldsResponse(missing_fields(body)),
            err |-> NoExc, anomaly |-> NoAnomaly]
      [] body.t # "map" ->
           [kind |-> "raise", response |-> NoResponse, anomaly |-> NoAnomaly,
            err |-> Exc("validate", "TypeError",
                        body.t \o " indices must be integers or slices, not str")]
      [] OTHER ->
           LET r == Normalize(body.fields)
           IN  IF r.ok
               THEN [kind |-> "anomaly", response |-> NoResponse, err |-> NoExc,
                     anomaly |-> r.anomaly]
               ELSE [kind |-> "raise", response |-> NoResponse, err |-> r.err,
                     anomaly |-> NoAnomaly]

\* The exceptions get_config(), AnomalyAnalyzerAgent(config) and
\* analyze_anomaly(anomaly) raise in the model: subclasses of Exception,
\* among them ValueError and a subclass of it.
ExceptionKinds == {"ValueError", "JSONDecodeError", "RuntimeError", "KeyError"}

(***************************************************************************)
(* The health endpoint (main.py 208-247): what an invocation of health     *)
(* holds.  pc: "start", "configured" (get_config returned), "constructed"  *)
(* (the analyzer is built), "measured" (the false-positive rate is read),  *)
(* "done" (a response is returned), "raised" (an exception left health).   *)
(***************************************************************************)
NoConfig == [present |-> FALSE, has_ids |-> FALSE, project_id |-> "", dataset_id |-> ""]

\* What get_config() returns: configurations with their BigQuery
\* identifiers, and one object without those attributes.
Configs ==
    {[present |-> TRUE, has_ids |-> TRUE, project_id |-> "proj-a", dataset_id |-> "anomalies"],
     [present |-> TRUE, has_ids |-> TRUE, project_id |-> "proj-b", dataset_id |-> "anomalies"],
     [present |-> TRUE, has_ids |-> FALSE, project_id |-> "", dataset_id |-> ""]}

NoFpRate == [present |-> FALSE, serializable |-> TRUE, v |-> JNull]

\* What get_false_positive_rate() returns: a rate in tenths, None, or a
\* value json.dumps cannot serialise.
FpRates ==
    {[present |-> TRUE, serializable |-> TRUE, v |-> JNum(n)] : n \in 0..MaxFpRate}
        \cup {[present |-> TRUE, serializable |-> TRUE, v |-> JNull],
              [present |-> TRUE, serializable |-> FALSE, v |-> JNull]}

NoHealthResponse ==
    [http |-> 0, keys |-> {}, status |-> "", service |-> "", error |-> "",
     project_id |-> "", dataset_id |-> "", false_positive_rate |-> JNull]

\* Lines 224-235.
HealthyResponse(config, fp_rate) ==
    [http |-> 200,
     keys |-> {"status", "service", "timestamp", "project_id", "dataset_id",
               "false_positive_rate"},
     status |-> "healthy", service |-> "anomaly-analyzer", error |-> "",
     project_id |-> config.project_id, dataset_id |-> config.dataset_id,
     false_positive_rate |-> fp_rate.v]

\* Lines 238-247.
UnhealthyResponse(e) ==
    [http |-> 503, keys |-> {"status", "service", "error", "timestamp"},
     status |-> "unhealthy", service |-> "anomaly-analyzer", error |-> e.msg,
     project_id |-> "", dataset_id |-> "", false_positive_rate |-> JNull]

\* Lines 224-235: the attribute reads of the healthy envelope, then json.dumps.
BuildHealthy(config, fp_rate) ==
    CASE ~config.has_ids ->
           [ok |-> FALSE, response |-> NoHealthResponse,
            err |-> AttributeError("respond", "Config", "bigquery_project_id")]
      [] ~fp_rate.serializable ->
           [ok |-> FALSE, response |-> NoHealthResponse,
            err |-> Exc("respond", "TypeError",
                        "Object of type Decimal is not JSON serializable")]
      [] OTHER -> [ok |-> TRUE, err |-> NoExc, response |-> HealthyResponse(config, fp_rate)]

\* The subclasses of Exception among the exception names of the model.
ExceptionClasses ==
    {"ValueError", "JSONDecodeError", "UnicodeDecodeError", "RuntimeError",
     "KeyError", "AttributeError", "TypeError"}

\* A variant of HealthCatches: `except ValueError` in place of `except Exception`.
HealthCatchesValueError(exc) == IsValueError(exc)

\* Line 236: `except Exception as e`.
HealthCatches(exc) == exc \in ExceptionClasses

NoHealth ==
    [pc |-> "idle", method |-> "", config |-> NoConfig, analyzer |-> FALSE,
     fp_rate |-> NoFpRate, raised |-> NoExc, response |-> NoHealthResponse]

\* The request methods health is called with; health never reads its request.
HealthMethods == {"GET", "POST", "HEAD", "OPTIONS"}

(***************************************************************************)
(* The state machine: one handler invocation per element of `active`.      *)
(* pc: "start" (request received), "validated" (Anomaly built),            *)
(* "ready" (analyzer constructed), "analyzed" (engine returned), "done".   *)
(***************************************************************************)
IdleRequest == [method |-> "", body |-> BodyNone]

InitWith(running) ==
    /\ active = running
    /\ pc = [p \in Invocations |-> IF p \in running THEN "start" ELSE "idle"]
    /\ \E f \in [running -> Requests] :
          request = [p \in Invocations |-> IF p \in running THEN f[p] ELSE IdleRequest]
    /\ anomaly = [p \in Invocations |-> NoAnomaly]
    /\ analysis = [p \in Invocations |-> NoAnalysis]
    /\ raised = [p \in Invocations |-> NoExc]
    /\ response = [p \in Invocations |-> NoResponse]
    /\ engineCalls = [p \in Invocations |-> 0]
    /\ health = [p \in Invocations |-> NoHealth]

Init == InitWith({1})

\* A variant of Finish that keeps the response in one slot shared by all
\* invocations (a module-level response object).
FinishShared(p, r, e) ==
    /\ response' = [q \in Invocations |-> r]
    /\ raised' = [raised EXCEPT ![p] = e]
    /\ pc' = [pc EXCEPT ![p] = "done"]

\* The request ends with response r; e is the exception caught, if any.
Finish(p, r, e) ==
    /\ response' = [response EXCEPT ![p] = r]
    /\ raised' = [raised EXCEPT ![p] = e]
    /\ pc' = [pc EXCEPT ![p] = "done"]

\* Lines 63-70.
Preflight(p) ==
    /\ p \in active
    /\ pc[p] = "start"
    /\ request[p].method = "OPTIONS"
    /\ Finish(p, PreflightResponse, NoExc)
    /\ UNCHANGED <<active, request, anomaly, analysis, engineCalls, health>>

\* Lines 78-133 and, for what they raise, lines 184-205.
Validate(p) ==
    /\ p \in active
    /\ pc[p] = "start"
    /\ request[p].method # "OPTIONS"
    /\ LET v == ValidateRequest(request[p].body)
       IN  CASE v.kind = "response" ->
                  /\ Finish(p, v.response, NoExc)
                  /\ UNCHANGED anomaly
             [] v.kind = "raise" ->
                  /\ Finish(p, ErrorResponse(v.err), v.err)
                  /\ UNCHANGED anomaly
             [] OTHER ->
                  /\ anomaly' = [anomaly EXCEPT ![p] = v.anomaly]
                  /\ pc' = [pc EXCEPT ![p] = "validated"]
                  /\ UNCHANGED <<response, raised>>
    /\ UNCHANGED <<active, request, analysis, engineCalls, health>>

\* Lines 135-137: get_config() and AnomalyAnalyzerAgent(config) return or raise.
InitAnalyzer(p) ==
    /\ p \in active
    /\ pc[p] = "validated"
    /\ \/ /\ pc' = [pc EXCEPT ![p] = "ready"]
          /\ UNCHANGED <<response, raised>>
       \/ \E x \in ExceptionKinds :
             LET e == Exc("init", x, "analyzer construction failed")
             IN  Finish(p, ErrorResponse(e), e)
    /\ UNCHANGED <<active, request, anomaly, analysis, engineCalls, health>>

\* Line 140: the engine is invoked; it returns an object or raises.
EngineCall(p) ==
    /\ p \in active
    /\ pc[p] = "ready"
    /\ engineCalls' = [engineCalls EXCEPT ![p] = @ + 1]
    /\ \/ \E an \in Analyses(anomaly[p]) :
             /\ analysis' = [analysis EXCEPT ![p] = an]
             /\ pc' = [pc EXCEPT ![p] = "analyzed"]
             /\ UNCHANGED <<response, raised>>
       \/ \E x \in ExceptionKinds :
             LET e == Exc("engine", x, "analysis failed")
             IN  /\ Finish(p, ErrorResponse(e), e)
                 /\ UNCHANGED analysis
    /\ UNCHANGED <<active, request, anomaly, health>>

\* Lines 142-182 and, for what they raise, lines 184-205.
Assemble(p) ==
    /\ p \in active
    /\ pc[p] = "analyzed"
    /\ LET r == BuildResponse(analysis[p])
       IN  IF r.ok
           THEN Finish(p, r.response, NoExc)
           ELSE Finish(p, ErrorResponse(r.err), r.err)
    /\ UNCHANGED <<active, request, anomaly, analysis, engineCalls, health>>

Next ==
    \E p \in Invocations :
        \/ Preflight(p)
        \/ Validate(p)
        \/ InitAnalyzer(p)
        \/ EngineCall(p)
        \/ Assemble(p)

Spec == Init /\ [][Next]_vars

(***************************************************************************)
(* Concurrent invocations: every invocation runs, each on a request of its *)
(* own; their steps interleave in every order.                             *)
(***************************************************************************)
\* The requests of the concurrent runs: two valid mappings, a bad enum value,
\* a null numeric, a missing key, the empty mapping, an unparseable body and
\* a preflight.
ConcurrentRequests ==
    {[method |-> "POST", body |-> b] :
        b \in {BodyMap(Example),
               BodyMap(("confidence" :> JNum(15)) @@ Example),
               BodyMap(("severity" :> JStr("extreme")) @@ Example),
               BodyMap(("current_value" :> JNull) @@ Example),
               BodyMap([k \in {"anomaly_id"} |-> Example[k]]),
               BodyMap(NoFields),
               BodyNone}}
        \cup {[method |-> "OPTIONS", body |-> BodyNone]}

InitConcurrent ==
    /\ active = Invocations
    /\ pc = [p \in Invocations |-> "start"]
    /\ request \in [Invocations -> ConcurrentRequests]
    /\ anomaly = [p \in Invocations |-> NoAnomaly]
    /\ analysis = [p \in Invocations |-> NoAnalysis]
    /\ raised = [p \in Invocations |-> NoExc]
    /\ response = [p \in Invocations |-> NoResponse]
    /\ engineCalls = [p \in Invocations |-> 0]
    /\ health = [p \in Invocations |-> NoHealth]

SpecConcurrent == InitConcurrent /\ [][Next]_vars

(***************************************************************************)
(* The health endpoint as a state machine.                                 *)
(***************************************************************************)
analyzeVars == <<active, pc, request, anomaly, analysis, raised, response, engineCalls>>

InitHealth ==
    /\ active = {}
    /\ pc = [p \in Invocations |-> "idle"]
    /\ request = [p \in Invocations |-> IdleRequest]
    /\ anomaly = [p \in Invocations |-> NoAnomaly]
    /\ analysis = [p \in Invocations |-> NoAnalysis]
    /\ raised = [p \in Invocations |-> NoExc]
    /\ response = [p \in Invocations |-> NoResponse]
    /\ engineCalls = [p \in Invocations |-> 0]
    /\ \E running \in (SUBSET Invocations) \ {{}} :
          \E f \in [running -> HealthMethods] :
              health = [p \in Invocations |->
                           IF p \in running
                           THEN [NoHealth EXCEPT !.pc = "start", !.method = f[p]]
                           ELSE NoHealth]

\* Lines 236-247: exception e was raised inside the try block of health.
HealthFail(p, e) ==
    health' =
        [health EXCEPT ![p] =
            IF HealthCatches(e.exc)
            THEN [@ EXCEPT !.pc = "done", !.raised = e, !.response = UnhealthyResponse(e)]
            ELSE [@ EXCEPT !.pc = "raised", !.raised = e]]

\* Line 218: config = get_config().
HealthConfig(p) ==
    /\ health[p].pc = "start"
    /\ \/ \E c \in Configs :
             health' = [health EXCEPT ![p].pc = "configured", ![p].config = c]
       \/ \E x \in ExceptionKinds :
             HealthFail(p, Exc("config", x, "configuration could not be loaded"))
    /\ UNCHANGED analyzeVars

\* Line 219: analyzer = AnomalyAnalyzerAgent(config).
HealthAnalyzer(p) ==
    /\ health[p].pc = "configured"
    /\ \/ health' = [health EXCEPT ![p].pc = "constructed", ![p].analyzer = TRUE]
       \/ \E x \in ExceptionKinds :
             HealthFail(p, Exc("analyzer", x, "analyzer construction failed"))
    /\ UNCHANGED analyzeVars

\* Line 222: fp_rate = analyzer.get_false_positive_rate().
HealthFpRate(p) ==
    /\ health[p].pc = "constructed"
    /\ \/ \E r \in FpRates :
             health' = [health EXCEPT ![p].pc = "measured", ![p].fp_rate = r]
       \/ \E x \in ExceptionKinds :
             HealthFail(p, Exc("fp_rate", x, "false positive rate query failed"))
    /\ UNCHANGED analyzeVars

\* Lines 224-235 and, for what they raise, lines 236-247.
HealthRespond(p) ==
    /\ health[p].pc = "measured"
    /\ LET r == BuildHealthy(health[p].config, health[p].fp_rate)
       IN  IF r.ok
           THEN health' = [health EXCEPT ![p].pc = "done", ![p].response = r.response]
           ELSE HealthFail(p, r.err)
    /\ UNCHANGED analyzeVars

NextHealth ==
    \E p \in Invocations :
        \/ HealthConfig(p)
        \/ HealthAnalyzer(p)
        \/ HealthFpRate(p)
        \/ HealthRespond(p)

SpecHealth == InitHealth /\ [][NextHealth]_vars

(***************************************************************************)
(* The terms the claims are stated in.                                     *)
(***************************************************************************)
Body(p) == request[p].body

Fields(p) == request[p].body.fields

Done(p) == pc[p] = "done"

IsMapping(p) == request[p].method = "POST" /\ Body(p).t = "map"

\* A mapping that carries the ten required keys.
HasAllRequired(p) == IsMapping(p) /\ RequiredSet \subseteq DOMAIN Fields(p)

AbsentRequired(p) == RequiredSet \ DOMAIN Fields(p)

Range(seq) == {seq[i] : i \in DOMAIN seq}

TimestampStrings ==
    {"2024-12-16T14:05:30Z", "2024-12-16T14:05:30+00:00", "2024-12-16T14:05:30",
     "2024-12-16", "2024-12-16T14:00:00Z"}

FloatStrings == {"15.5", " 2.3 ", "-1"}

NumericKeys ==
    {"current_value", "baseline_value", "deviation_sigma", "deviation_percentage"}

BadTimestamp(v) == ~(v.t = "str" /\ v.s \in TimestampStrings)

BadNumeric(v) == ~(v.t \in {"num", "bool"} \/ (v.t = "str" /\ v.s \in FloatStrings))

BadAnomalyType(v) ==
    ~(v.t = "str" /\ v.s \in {"stability", "performance", "cost", "resource", "unknown"})

BadSeverity(v) ==
    ~(v.t = "str" /\ v.s \in {"critical", "high", "medium", "low", "info"})

\* The request of p fails validation: no mapping, a required key absent, a
\* bad timestamp, a bad numeric or a bad enumeration value.
FailsValidation(p) ==
    \/ ~IsMapping(p)
    \/ AbsentRequired(p) # {}
    \/ BadTimestamp(Fields(p)["detected_at"])
    \/ \E k \in NumericKeys : BadNumeric(Fields(p)[k])
    \/ BadAnomalyType(Fields(p)["anomaly_type"])
    \/ BadSeverity(Fields(p)["severity"])

\* A complete AnomalyAnalysis: every attribute the response reads is there.
Complete(an) ==
    /\ ~an.isNone
    /\ an.anomaly.present
    /\ an.root_cause.present
    /\ an.root_cause.serializable
    /\ an.analyzed_at.present

SuccessKeys ==
    {"success", "anomaly_id", "root_cause", "recommendations", "analyzed_at",
     "ai_model_used", "analysis_duration_ms"}

\* The JSON type each key has in a well-typed request.
WellTyped(fields) ==
    \A k \in DOMAIN fields :
        CASE k \in {"anomaly_id", "detected_at", "metric_name", "metric_type",
                    "anomaly_type", "severity"} -> fields[k].t = "str"
          [] k \in NumericKeys \cup {"confidence"} -> fields[k].t = "num"
          [] k = "affected_resources" -> fields[k].t = "list"
          [] OTHER -> fields[k].t = "map"

(***************************************************************************)
(* C1.  A mapping that lacks one or more of the ten required keys,         *)
(* the mapping lacking all ten included, is answered 400 with the          *)
(* missing-fields envelope whose `missing` list holds exactly the absent   *)
(* required keys.                                                          *)
(***************************************************************************)
C1_MissingExactlyReported ==
    \A p \in active :
        (Done(p) /\ IsMapping(p) /\ AbsentRequired(p) # {}) =>
            /\ response[p].status = 400
            /\ response[p].error = "Missing required fields"
            /\ "missing" \in response[p].keys
            /\ Range(response[p].missing) = AbsentRequired(p)
            /\ Len(response[p].missing) = Cardinality(AbsentRequired(p))

(***************************************************************************)
(* C2.  The engine is never invoked for a request that fails validation:   *)
(* at no point of such a request has an engine call occurred, and the      *)
(* request ends in an error response.                                      *)
(***************************************************************************)
C2_NoEngineCallOnInvalid ==
    \A p \in active :
        (request[p].method = "POST" /\ FailsValidation(p)) =>
            /\ engineCalls[p] = 0
            /\ pc[p] \in {"start", "done"}
            /\ Done(p) => response[p].status \in {400, 500}

C2_Witness ==
    \E p \in active :
        /\ Done(p)
        /\ HasAllRequired(p)
        /\ BadSeverity(Fields(p)["severity"])
        /\ response[p].status = 400
        /\ engineCalls[p] = 0

(***************************************************************************)
(* C3.  Whenever the engine raises on a well-formed request, the response  *)
(* is a 5xx whose envelope has error "Internal server error" and a `type`  *)
(* key; never a 2xx and never a client-error envelope.                     *)
(***************************************************************************)
C3_EngineFailureIsServerError ==
    \A p \in active :
        (Done(p) /\ raised[p].where = "engine") =>
            /\ response[p].status >= 500
            /\ response[p].error = "Internal server error"
            /\ "type" \in response[p].keys
            /\ response[p].type = raised[p].exc

(***************************************************************************)
(* C4.  A request carrying all ten required keys whose anomaly_type or     *)
(* severity is outside the enumeration is answered 400 "Validation         *)
(* error"; no Anomaly is built and the engine is not called.               *)
(***************************************************************************)
C4_BadEnumIsValidationError ==
    \A p \in active :
        (/\ Done(p)
         /\ HasAllRequired(p)
         /\ \/ BadAnomalyType(Fields(p)["anomaly_type"])
            \/ BadSeverity(Fields(p)["severity"])) =>
            /\ response[p].status = 400
            /\ response[p].error = "Validation error"
            /\ ~anomaly[p].present
            /\ engineCalls[p] = 0

(***************************************************************************)
(* C5.  A request carrying all ten required keys whose detected_at does    *)
(* not parse or one of whose four numeric values does not coerce to a      *)
(* float, whatever its JSON type, is answered 400 "Validation error",      *)
(* never a server error.                                                   *)
(***************************************************************************)
C5_BadValueIsValidationError ==
    \A p \in active :
        (/\ Done(p)
         /\ HasAllRequired(p)
         /\ \/ BadTimestamp(Fields(p)["detected_at"])
            \/ \E k \in NumericKeys : BadNumeric(Fields(p)[k])) =>
            /\ response[p].status = 400
            /\ response[p].error = "Validation error"

(***************************************************************************)
(* C6.  In a success response the key human_readable_summary is present    *)
(* exactly when the engine's analysis has a summary; a summary of five     *)
(* empty strings still produces the key (with the five empty strings), so  *)
(* it is told apart from an absent summary.                                *)
(***************************************************************************)
C6_SummaryKeyIffPresent ==
    \A p \in active :
        (Done(p) /\ response[p].status = 200) =>
            /\ ("human_readable_summary" \in response[p].keys) <=> analysis[p].summary.present
            /\ analysis[p].summary.present =>
                   response[p].human_readable_summary = analysis[p].summary

C6_Witness ==
    \E p \in active :
        /\ Done(p)
        /\ response[p].status = 200
        /\ analysis[p].summary = EmptySummary
        /\ "human_readable_summary" \in response[p].keys

(***************************************************************************)
(* C7.  Every error envelope (malformed request, missing required fields,  *)
(* validation error, internal server error) has an `error` key and a       *)
(* `message` key.                                                          *)
(***************************************************************************)
C7_ErrorEnvelopeHasErrorAndMessage ==
    \A p \in active :
        (Done(p) /\ response[p].status >= 400) =>
            {"error", "message"} \subseteq response[p].keys

C10_ToDictRoundTrips ==
    \A p \in active :
        (anomaly[p].present /\ WellTyped(Fields(p))) =>
            /\ to_dict(anomaly[p]).ok
            /\ Normalize(to_dict(anomaly[p]).dict).ok
            /\ Normalize(to_dict(anomaly[p]).dict).anomaly = anomaly[p]

(***************************************************************************)
(* C11.  Under any interleaving of concurrent invocations, the response to *)
(* each request depends only on that request's body and its own engine     *)
(* result: every step of an invocation leaves the state of the others      *)
(* untouched, and each invocation's Anomaly and response are those of      *)
(* running its request alone.                                              *)
(***************************************************************************)
\* The response of running the request of p alone, given the outcome the
\* analyzer construction and the engine had for p.
ResponseAlone(p) ==
    IF request[p].method = "OPTIONS"
    THEN PreflightResponse
    ELSE LET v == ValidateRequest(request[p].body)
         IN  CASE v.kind = "response" -> v.response
               [] v.kind = "raise" -> ErrorResponse(v.err)
               [] raised[p].where \in {"init", "engine"} -> ErrorResponse(raised[p])
               [] OTHER ->
                    LET r == BuildResponse(analysis[p])
                    IN  IF r.ok THEN r.response ELSE ErrorResponse(r.err)

\* What p holds is determined by p's own request and engine result.
OwnState(p) ==
    /\ ~Done(p) => response[p] = NoResponse
    /\ Done(p) => response[p] = ResponseAlone(p)
    /\ anomaly[p].present =>
           /\ ValidateRequest(request[p].body).kind = "anomaly"
           /\ anomaly[p] = ValidateRequest(request[p].body).anomaly
    /\ (~analysis[p].isNone /\ analysis[p].anomaly.present) =>
           analysis[p].anomaly = anomaly[p]
    /\ engineCalls[p] \in {0, 1}

\* A step changes the state of one invocation only, and no request.
StepOfOne ==
    /\ request' = request
    /\ active' = active
    /\ health' = health
    /\ \E p \in Invocations :
          \A q \in Invocations \ {p} :
              /\ pc'[q] = pc[q]
              /\ anomaly'[q] = anomaly[q]
              /\ analysis'[q] = analysis[q]
              /\ raised'[q] = raised[q]
              /\ response'[q] = response[q]
              /\ engineCalls'[q] = engineCalls[q]

C11_InvocationsIndependent ==
    /\ [](\A p \in Invocations : OwnState(p))
    /\ [][StepOfOne]_vars

\* The second invocation has answered 200 while the first, on another
\* request, is between validation and its engine call.
C11_Witness ==
    /\ active = Invocations
    /\ pc[1] = "ready"
    /\ Done(2)
    /\ response[2].success
    /\ request[1] # request[2]

(***************************************************************************)
(* C12.  The health endpoint never raises to its caller: when loading the  *)
(* configuration, constructing the analyzer or querying the false-positive *)
(* rate fails with an exception (any subclass of Exception), health        *)
(* returns the degraded envelope (status unhealthy, HTTP 503); it returns  *)
(* the healthy envelope with HTTP 200 only when all three steps succeeded. *)
(***************************************************************************)
C12_HealthNeverRaises ==
    \A p \in Invocations :
        LET h == health[p]
        IN  /\ h.pc # "raised"
            /\ (h.pc = "done" /\ h.raised.where \in {"config", "analyzer", "fp_rate"}) =>
                   /\ h.response.http = 503
                   /\ h.response.status = "unhealthy"
                   /\ "error" \in h.response.keys
            /\ (h.response.http = 200 \/ h.response.status = "healthy") =>
                   /\ h.pc = "done"
                   /\ h.response.http = 200 /\ h.response.status = "healthy"
                   /\ h.raised = NoExc
                   /\ h.config.present
                   /\ h.analyzer
                   /\ h.fp_rate.present
            /\ h.pc = "done" => h.response.http \in {200, 503}
            /\ h.pc # "done" => h.response = NoHealthResponse

\* The false-positive-rate query failed after the first two steps succeeded,
\* and health answered 503 unhealthy.
C12_Witness ==
    \E p \in Invocations :
        /\ health[p].pc = "done"
        /\ health[p].raised.where = "fp_rate"
        /\ health[p].raised.exc = "RuntimeError"
        /\ health[p].config.present
        /\ health[p].analyzer
        /\ health[p].response.http = 503
        /\ health[p].response.status = "unhealthy"

====
